---- MODULE Spec2Model ----
(***************************************************************************)
(* Model of cortex's VAE plugin (cortex/built_ins/models/vae.py) and of    *)
(* the classifier model builder (models/classifier.py).                    *)
(*                                                                         *)
(* Tensors are sequences: a batch is a sequence of examples, a latent      *)
(* tensor a sequence (batch) of sequences (latent dimensions).  Floats     *)
(* are fixed-point numbers in units of 1/Scale with a finite range and     *)
(* the three IEEE specials, so that rounding, underflow and overflow of    *)
(* the code's float arithmetic have their counterpart here.                *)
(***************************************************************************)
EXTENDS Integers, Sequences, FiniteSets, TLC

(* ------------------------------ bounds -------------------------------- *)

\* Fixed-point resolution: the float 1.0 is Scale units.
Scale == 4
\* Output width of the encoder backbone built by ImageEncoder.build.
EncWidth == 1

\* dim_z and dim_encoder_out defaults of VAE.build.
DefaultDimZ == 64
DefaultDimEncoderOut == 1024

(* --------------------------- float arithmetic ------------------------- *)

One == Scale
\* The smallest positive number of the format.
Tiny == One \div Scale
MaxFinite == 128 * Scale
PInf == MaxFinite + 1
NInf == 0 - PInf
NaN == MaxFinite + 2

IsNaN(a) == a = NaN
IsInf(a) == a = PInf \/ a = NInf
IsFinite(a) == ~IsNaN(a) /\ ~IsInf(a)

\* a / b rounded to the nearest integer (b > 0).
RoundDiv(a, b) == (2 * a + b) \div (2 * b)

\* A finite result that leaves the representable range becomes an infinity.
Fin(v) == IF v > MaxFinite THEN PInf ELSE IF v < 0 - MaxFinite THEN NInf ELSE v

Sign(a) == IF a > 0 THEN 1 ELSE IF a < 0 THEN 0 - 1 ELSE 0

\* The operations take their operands as one evaluated pair.
NegOf[a \in Int] == IF IsNaN(a) THEN NaN ELSE 0 - a

AddOf[p \in Int \X Int] ==
    IF IsNaN(p[1]) \/ IsNaN(p[2]) THEN NaN
    ELSE IF IsInf(p[1]) /\ IsInf(p[2]) THEN (IF p[1] = p[2] THEN p[1] ELSE NaN)
    ELSE IF IsInf(p[1]) THEN p[1]
    ELSE IF IsInf(p[2]) THEN p[2]
    ELSE Fin(p[1] + p[2])

MulOf[p \in Int \X Int] ==
    IF IsNaN(p[1]) \/ IsNaN(p[2]) THEN NaN
    ELSE IF IsInf(p[1]) \/ IsInf(p[2])
         THEN (IF p[1] = 0 \/ p[2] = 0 THEN NaN
               ELSE IF Sign(p[1]) * Sign(p[2]) > 0 THEN PInf ELSE NInf)
    ELSE Fin(RoundDiv(p[1] * p[2], Scale))

DivIntOf[p \in Int \X Int] == IF IsFinite(p[1]) THEN RoundDiv(p[1], p[2]) ELSE p[1]

Neg(a) == NegOf[a]
Add(a, b) == AddOf[<<a, b>>]
Sub(a, b) == AddOf[<<a, NegOf[b]>>]
Mul(a, b) == MulOf[<<a, b>>]

\* tensor / python int (n > 0).
DivInt(a, n) == DivIntOf[<<a, n>>]

\* exp by its power series, at ExpPrecision units per 1.0.
ExpPrecision == 100000
ExpTerms == 40
ExpLimit == 6 * Scale

RECURSIVE ExpSeries(_, _, _, _)
ExpSeries(n, k, term, acc) ==
    IF k > ExpTerms \/ term = 0 THEN acc
    ELSE LET t == RoundDiv(term * n, Scale * k)
         IN ExpSeries(n, k + 1, t, acc + t)

\* exp(n / Scale) at ExpPrecision units per 1.0, tabulated once.
ExpTable ==
    [n \in (0 - ExpLimit)..ExpLimit |-> ExpSeries(n, 1, ExpPrecision, ExpPrecision)] @@ <<>>

\* log(a / Scale) in units of 1/Scale, to the nearest: the inverse of ExpTable.
LogNearest(a) ==
    LET target == a * (ExpPrecision \div Scale)
        below == {l \in (0 - ExpLimit)..ExpLimit : ExpTable[l] <= target}
        lo == IF below = {} THEN 0 - ExpLimit
              ELSE CHOOSE l \in below : \A m \in below : m <= l
    IN IF lo < ExpLimit /\ 2 * target >= ExpTable[lo] + ExpTable[lo + 1]
       THEN lo + 1 ELSE lo

LogTable == [a \in 1..MaxFinite |-> LogNearest(a)] @@ <<>>

\* torch.exp: overflows to inf, underflows to 0.
ExpOf[a \in Int] ==
    IF IsNaN(a) THEN NaN
    ELSE IF a = PInf THEN PInf
    ELSE IF a = NInf THEN 0
    ELSE IF a > ExpLimit THEN PInf
    ELSE IF a < 0 - ExpLimit THEN 0
    ELSE Fin(RoundDiv(ExpTable[a], ExpPrecision \div Scale))

Exp(a) == ExpOf[a]

\* torch.log: log(0) = -inf, log of a negative number is nan.
LogOf[a \in Int] ==
    IF IsNaN(a) THEN NaN
    ELSE IF a = PInf THEN PInf
    ELSE IF a < 0 THEN NaN
    ELSE IF a = 0 THEN NInf
    ELSE LogTable[a]

Log(a) == LogOf[a]

\* Sum of s[lo..hi], by halves.
RECURSIVE SumRange(_, _, _)
SumRange(s, lo, hi) ==
    IF lo > hi THEN 0
    ELSE IF lo = hi THEN s[lo]
    ELSE LET mid == (lo + hi) \div 2
         IN Add(SumRange(s, lo, mid), SumRange(s, mid + 1, hi))

\* tensor.sum() over a sequence.
SumSeq(s) == SumRange(s, 1, Len(s))

(* ------------------------------- state -------------------------------- *)

VARIABLES
    net,            \* self.nets.vae: the VAENetwork built by VAE.build (dims and weights)
    raised,         \* the exception the last operation raised, "none" if it returned
    training,       \* nn.Module.training of the VAENetwork
    mu,             \* VAENetwork.mu
    std,            \* VAENetwork.std
    latent,         \* VAENetwork.latent
    losses,         \* self.losses of the VAE plugin
    results,        \* self.results of the VAE plugin
    viz,            \* names of the artifacts exported by add_image / add_scatter
    lastOp,         \* the operation that ran last
    buildArgs,      \* the arguments VAE.build was called with
    lastX,          \* input of the most recent forward call
    esp,            \* noise drawn by the most recent reparametrize call (<<>>: none drawn)
    fwdTraining,    \* training flag read by the most recent reparametrize call
    outputs,        \* value returned by the most recent forward call
    lastBeta,       \* beta_kld of the most recent routine call
    diverged,       \* the last two forward calls were training-mode calls with equal mu and std and different latents
    classifier_args_,   \* models/classifier.py: module-level default arguments
    netArgs,        \* keyword arguments the last build_model call gave to Net
    lastClassifierArgs, \* classifier_args of the last build_model call
    lossFns         \* second value returned by the last build_model call

vaeVars == <<net, raised, training, mu, std, latent, losses, results, viz, lastOp,
             buildArgs, lastX, esp, fwdTraining, outputs, lastBeta, diverged>>
classifierVars == <<classifier_args_, netArgs, lastClassifierArgs, lossFns>>
vars == <<vaeVars, classifierVars>>

\* Python's None, for tensors and dictionaries alike.
None == <<>>

(* ------------------------- VAENetwork (vae.py) ------------------------ *)

\* A dimension argument of VAE.build: left out, None, or an int.
Missing == [kind |-> "missing", v |-> 0]
NoneArg == [kind |-> "none", v |-> 0]
IntArg(n) == [kind |-> "int", v |-> n]

\* The calls of VAE.build: (dim_z, dim_encoder_out).
BuildCalls ==
    {<<dz, IntArg(EncWidth)>> : dz \in {NoneArg, IntArg(0 - 1), IntArg(0), IntArg(1), IntArg(2)}}
    \cup {<<IntArg(2), dout>> : dout \in {Missing, NoneArg, IntArg(0 - 1), IntArg(0)}}
    \cup {<<Missing, Missing>>}

\* Initial values of the two linear heads: weight fill and bias fill of
\* mu_net and of logvar_net.
Big == 5 * One
HeadInits ==
    {[wmu |-> One, bmu |-> 0, wlv |-> One, blv |-> 0],
     [wmu |-> One, bmu |-> Tiny, wlv |-> 0 - Big, blv |-> 0],
     [wmu |-> One, bmu |-> 0, wlv |-> Big, blv |-> 0]}

\* Input batches (one pixel per example) and beta_kld values.
Batches == {<<One>>, <<0 - One>>, <<0 - One, One>>}
Betas == {0, One, 2 * One}

\* Noise tensors a call of normal_() may draw, of the shape of a (b, dz) tensor.
NoiseTensors(b, dz) ==
    {[i \in 1..b |-> [j \in 1..dz |-> 0]],
     [i \in 1..b |-> [j \in 1..dz |-> IF (i + j) % 2 = 0 THEN One ELSE 0 - One]]}

\* The parameter's default applies when the argument is left out.
WithDefault(arg, default) == IF arg.kind = "missing" THEN IntArg(default) ELSE arg

\* nn.Linear(in_features, out_features): what constructing it may raise.
LinearInit(inF, outF) ==
    IF inF.kind = "none" \/ outF.kind = "none" THEN {"TypeError"}
    ELSE IF inF.v < 0 \/ outF.v < 0 THEN {"RuntimeError"}
    ELSE IF inF.v = 0 THEN {"none", "ZeroDivisionError"}
    ELSE {"none"}

NoNet == [built |-> FALSE, dim_out |-> 0, dim_z |-> 0,
          wmu |-> 0, bmu |-> 0, wlv |-> 0, blv |-> 0]

\* VAENetwork.__init__: the heads are nn.Linear(dim_out, dim_z); weights and
\* biases are kept by their fill value.
VAENetworkInit(dim_out, dim_z, h) ==
    [built |-> TRUE, dim_out |-> dim_out, dim_z |-> dim_z,
     wmu |-> h.wmu, bmu |-> h.bmu, wlv |-> h.wlv, blv |-> h.blv]

\* Encoder backbone: one row of EncWidth features per example.
Encoder(x) == [i \in 1..Len(x) |-> [k \in 1..EncWidth |-> x[i]]]

Relu(h) == [i \in 1..Len(h) |-> [k \in 1..Len(h[i]) |-> IF h[i][k] < 0 THEN 0 ELSE h[i][k]]]

\* nn.Linear applied to a batch: h w^T + b, one output per latent dimension.
Linear(w, b, h) ==
    [i \in 1..Len(h) |->
        [j \in 1..net.dim_z |->
            Add(SumSeq([k \in 1..Len(h[i]) |-> Mul(h[i][k], w)]), b)]]

\* The heads accept only rows of dim_out features.
ShapeOk(x) == \A i \in 1..Len(x) : Len(Encoder(x)[i]) = net.dim_out

ExpT(t) == [i \in 1..Len(t) |-> [j \in 1..Len(t[i]) |-> Exp(t[i][j])]]

\* Decoder backbone: one pixel per example from its latent row.
Decoder(z) == [i \in 1..Len(z) |-> SumSeq(z[i])]

\* reparametrize that samples whatever the mode (noise 1.0 where none was drawn).
ReparametrizeAlwaysSamples(m, s, eps) ==
    [i \in 1..Len(m) |-> [j \in 1..Len(m[i]) |->
        Add(m[i][j], Mul(s[i][j], IF eps = None THEN One ELSE eps[i][j]))]]

\* reparametrize that adds the noise unscaled by std.
ReparametrizeUnscaled(m, s, eps) ==
    IF training
    THEN [i \in 1..Len(m) |-> [j \in 1..Len(m[i]) |-> Add(m[i][j], eps[i][j])]]
    ELSE m

\* VAENetwork.reparametrize
Reparametrize(m, s, eps) ==
    IF training
    THEN [i \in 1..Len(m) |-> [j \in 1..Len(m[i]) |-> Add(m[i][j], Mul(s[i][j], eps[i][j]))]]
    ELSE m

\* forward that keeps a mu it has already computed.
ForwardMuCached(x) ==
    IF mu # None THEN mu ELSE Linear(net.wmu, net.bmu, Relu(Encoder(x)))

\* self.mu = self.mu_net(encoded)
ForwardMu(x) == Linear(net.wmu, net.bmu, Relu(Encoder(x)))

\* self.std = self.logvar_net(encoded).exp_()
ForwardStd(x) == ExpT(Linear(net.wlv, net.blv, Relu(Encoder(x))))

\* The noise a forward call draws: a tensor of the shape of std in training
\* mode, nothing otherwise.
Draws(x) == IF training THEN NoiseTensors(Len(x), net.dim_z) ELSE {None}

\* VAENetwork.forward on x with drawn noise eps.
ForwardPass(x, eps) ==
    /\ mu' = ForwardMu(x)
    /\ std' = ForwardStd(x)
    /\ latent' = Reparametrize(mu', std', eps)
    /\ outputs' = Decoder(latent')
    /\ lastX' = x
    /\ esp' = eps
    /\ fwdTraining' = training
    /\ diverged' = (mu # None /\ fwdTraining /\ training
                      /\ mu' = mu /\ std' = std /\ latent' # latent)

\* The heads reject the encoder's features before anything is recorded.
ForwardRaises ==
    /\ raised' = "ShapeMismatch"
    /\ UNCHANGED <<mu, std, latent, outputs, lastX, esp, fwdTraining, diverged>>

Forward ==
    /\ net.built
    /\ \E x \in Batches :
          \/ /\ ShapeOk(x)
             /\ \E eps \in Draws(x) : ForwardPass(x, eps)
             /\ raised' = "none"
          \/ /\ ~ShapeOk(x)
             /\ ForwardRaises
    /\ lastOp' = "forward"
    /\ UNCHANGED <<net, training, losses, results, viz, buildArgs, lastBeta>>
    /\ UNCHANGED classifierVars

\* nn.Module.train(mode) on the VAENetwork.
SetTraining ==
    /\ net.built
    /\ training' = ~training
    /\ UNCHANGED <<net, raised, mu, std, latent, losses, results, viz, lastOp, buildArgs,
                   lastX, esp, fwdTraining, outputs, lastBeta, diverged>>
    /\ UNCHANGED classifierVars

(* ----------------------------- VAE (vae.py) --------------------------- *)

\* VAE.build
Build ==
    /\ lastOp = "none"
    /\ \E call \in BuildCalls :
          LET dim_z == WithDefault(call[1], DefaultDimZ)
              dim_encoder_out == WithDefault(call[2], DefaultDimEncoderOut)
          IN /\ buildArgs' = [dim_z |-> call[1], dim_encoder_out |-> call[2]]
             /\ \E err \in LinearInit(dim_encoder_out, dim_z) :
                   /\ raised' = err
                   /\ IF err = "none"
                      THEN \E h \in HeadInits :
                             net' = VAENetworkInit(dim_encoder_out.v, dim_z.v, h)
                      ELSE net' = net
    /\ lastOp' = "build"
    /\ UNCHANGED <<training, mu, std, latent, losses, results, viz, lastX, esp,
                   fwdTraining, outputs, lastBeta, diverged>>
    /\ UNCHANGED classifierVars

\* F.mse_loss(outputs, inputs, size_average=False): summed, not averaged.
MseSum(out, x) ==
    SumSeq([i \in 1..Len(x) |-> Mul(Sub(out[i], x[i]), Sub(out[i], x[i]))])

\* The reconstruction loss left as the plain sum, not divided by the batch size.
RLossNotNormalized(out, x) == MseSum(out, x)

\* r_loss = vae_criterion(outputs, inputs, size_average=False) / inputs.size(0)
RLoss(out, x) == DivInt(MseSum(out, x), Len(x))

\* tensor.mean() over a sequence.
MeanSeq(s) == DivInt(SumSeq(s), Len(s))

\* The KL term without the "- 1." of the closed form.
KLTermNoMinusOne(m, s) ==
    DivInt(MeanSeq([i \in 1..Len(m) |->
              SumSeq([j \in 1..Len(m[i]) |->
                  Sub(Add(Mul(s[i][j], s[i][j]), Mul(m[i][j], m[i][j])),
                      Mul(2 * One, Log(s[i][j])))])]), 2)

\* kl = 0.5 * (std**2 + mu**2 - 2. * log(std) - 1.).sum(1).mean()
KLTerm(m, s) ==
    DivInt(MeanSeq([i \in 1..Len(m) |->
              SumSeq([j \in 1..Len(m[i]) |->
                  Sub(Sub(Add(Mul(s[i][j], s[i][j]), Mul(m[i][j], m[i][j])),
                          Mul(2 * One, Log(s[i][j]))),
                      One)])]), 2)

\* ms_ssim(inputs, outputs): a similarity score, 1.0 for equal images.
MsSsim(x, out) ==
    IF \E i \in 1..Len(out) : ~IsFinite(out[i]) THEN NaN
    ELSE IF x = out THEN One ELSE 0

\* self.losses.vae = (r_loss + beta_kld * kl)
VaeLoss(r_loss, beta_kld, kl) == Add(r_loss, Mul(beta_kld, kl))

\* dict.update / attribute assignment on a results or losses container.
Update(d, u) == [k \in DOMAIN d \cup DOMAIN u |-> IF k \in DOMAIN u THEN u[k] ELSE d[k]]

\* results.update that leaves the similarity score out.
RoutineResultsKLOnly(kl, msssim) == "KL_divergence" :> kl

\* self.results.update(KL_divergence=kl.item(), ms_ssim=msssim.item())
RoutineResults(kl, msssim) == ("KL_divergence" :> kl) @@ ("ms_ssim" :> msssim)

\* VAE.routine
Routine ==
    /\ net.built
    /\ \E x \in Batches, beta_kld \in Betas :
          /\ lastBeta' = beta_kld
          /\ \/ /\ ShapeOk(x)
                /\ \E eps \in Draws(x) : ForwardPass(x, eps)
                /\ \E r_loss \in {RLoss(outputs', x)}, kl \in {KLTerm(mu', std')},
                      msssim \in {MsSsim(x, outputs')} :
                      /\ losses' = Update(losses, "vae" :> VaeLoss(r_loss, beta_kld, kl))
                      /\ results' = Update(results, RoutineResults(kl, msssim))
                /\ raised' = "none"
             \/ /\ ~ShapeOk(x)
                /\ ForwardRaises
                /\ UNCHANGED <<losses, results>>
    /\ lastOp' = "routine"
    /\ UNCHANGED <<net, training, viz, buildArgs>>
    /\ UNCHANGED classifierVars

\* visualize that also records the similarity score of its batch.
VisualizeUpdatesResults ==
    /\ net.built
    /\ \E x \in Batches :
          \/ /\ ShapeOk(x)
             /\ \E eps \in Draws(x) : ForwardPass(x, eps)
             /\ viz' = viz \cup {"reconstruction", "ground truth", "latent values",
                                  "generated"}
             /\ results' = Update(results, "ms_ssim" :> MsSsim(x, outputs'))
             /\ raised' = "none"
          \/ /\ ~ShapeOk(x)
             /\ ForwardRaises
             /\ UNCHANGED <<viz, results>>
    /\ lastOp' = "visualize"
    /\ UNCHANGED <<net, training, losses, buildArgs, lastBeta>>
    /\ UNCHANGED classifierVars

\* VAE.visualize (targets given)
Visualize ==
    /\ net.built
    /\ \E x \in Batches :
          \/ /\ ShapeOk(x)
             /\ \E eps \in Draws(x) : ForwardPass(x, eps)
             /\ viz' = viz \cup {"reconstruction", "ground truth", "latent values",
                                  "generated"}
             /\ raised' = "none"
          \/ /\ ~ShapeOk(x)
             /\ ForwardRaises
             /\ viz' = viz
    /\ lastOp' = "visualize"
    /\ UNCHANGED <<net, training, losses, results, buildArgs, lastBeta>>
    /\ UNCHANGED classifierVars

(* ------------------------ models/classifier.py ----------------------- *)

\* classifier_args_ as the module is loaded.
ClassifierDefaults ==
    ("dim_h" :> 256) @@ ("batch_norm" :> TRUE) @@ ("dropout" :> "0.5")
    @@ ("nonlinearity" :> "ReLU") @@ ("f_size" :> 4) @@ ("stride" :> 2)
    @@ ("pad" :> 1) @@ ("min_dim" :> 4)

\* The classifier_args a caller may pass (None, or overriding keywords) and
\* the loss it may pass.
ClassifierArgsChoices ==
    {None,
     "dim_h" :> 512,
     ("dim_h" :> 128) @@ ("batch_norm" :> FALSE),
     "dropout" :> "0.1",
     "nonlinearity" :> "LeakyReLU",
     ("stride" :> 1) @@ ("pad" :> 0)}
LossChoices == {"None", "CrossEntropyLoss"}

\* build_model: args is classifier_args_ itself, updated in place and passed to Net.
BuildModel ==
    /\ \E loss \in LossChoices, ca \in ClassifierArgsChoices :
          LET given == IF ca = None THEN <<>> ELSE ca
          IN /\ classifier_args_' = Update(classifier_args_, given)
             /\ netArgs' = classifier_args_'
             /\ lastClassifierArgs' = given
             /\ lossFns' = ("classifier" :> loss)
    /\ UNCHANGED vaeVars

Init ==
    /\ net = NoNet
    /\ raised = "none"
    /\ training = TRUE
    /\ mu = None
    /\ std = None
    /\ latent = None
    /\ losses = <<>>
    /\ results = <<>>
    /\ viz = {}
    /\ lastOp = "none"
    /\ buildArgs = [dim_z |-> Missing, dim_encoder_out |-> Missing]
    /\ lastX = None
    /\ esp = None
    /\ fwdTraining = FALSE
    /\ outputs = None
    /\ lastBeta = 0
    /\ diverged = FALSE
    /\ classifier_args_ = ClassifierDefaults
    /\ netArgs = <<>>
    /\ lastClassifierArgs = <<>>
    /\ lossFns = <<>>

Next ==
    \/ Build
    \/ SetTraining
    \/ Forward
    \/ Routine
    \/ Visualize

Spec == Init /\ [][Next]_vars

\* The classifier module on its own: build_model called again and again.
NextClassifier == BuildModel

SpecClassifier == Init /\ [][NextClassifier]_vars

(* ------------------------------- claims ------------------------------- *)

\* A forward call has completed on the network.
Forwarded == mu # None

\* The last operation was a call of VAE.routine that returned.
RoutineReturned == lastOp = "routine" /\ raised = "none"

\* mu_net(relu(encoder(x))) and exp(logvar_net(relu(encoder(x)))) from the weights.
ExpectedMu(x) == Linear(net.wmu, net.bmu, Relu(Encoder(x)))
ExpectedStd(x) == ExpT(Linear(net.wlv, net.blv, Relu(Encoder(x))))

\* mu + std * noise, element by element.
Sampled(m, s, eps) ==
    [i \in 1..Len(m) |-> [j \in 1..Len(m[i]) |-> Add(m[i][j], Mul(s[i][j], eps[i][j]))]]

SameShape(a, b) ==
    /\ Len(a) = Len(b)
    /\ \A i \in 1..Len(a) : Len(a[i]) = Len(b[i])

\* C1: in inference mode forward(x) returns decoder(mu) with
\* mu = mu_net(relu(encoder(x))): no noise is drawn and the recorded latent is
\* the recorded mu.
C1_InferenceIsDeterministic ==
    (Forwarded /\ ~fwdTraining) =>
        /\ esp = None
        /\ mu = ExpectedMu(lastX)
        /\ latent = mu
        /\ outputs = Decoder(ExpectedMu(lastX))

\* An inference-mode forward call on a network with dim_z > 0 whose std is not
\* zero, so that sampling would have changed the latent.
C1_Witness ==
    /\ Forwarded /\ ~fwdTraining /\ net.dim_z > 0
    /\ \E i \in 1..Len(std) : \E j \in 1..Len(std[i]) : std[i][j] # 0 /\ IsFinite(std[i][j])

\* C2 as stated: in training mode reparametrize draws noise of the shape of
\* std and returns mu + std * noise; the latent equals mu whenever the noise
\* drawn is zero.
C2_Original ==
    (Forwarded /\ fwdTraining) =>
        /\ SameShape(esp, std)
        /\ latent = Sampled(mu, std, esp)
        /\ \A i \in 1..Len(mu) : \A j \in 1..Len(mu[i]) :
              esp[i][j] = 0 => latent[i][j] = mu[i][j]

\* C2 amended: in training mode reparametrize draws noise of the shape of std
\* and returns mu + std * noise; an element of the latent equals that of mu
\* when its noise is zero and its mu and std are finite.
C2_TrainingSamples ==
    (Forwarded /\ fwdTraining) =>
        /\ SameShape(esp, std)
        /\ latent = Sampled(mu, std, esp)
        /\ \A i \in 1..Len(mu) : \A j \in 1..Len(mu[i]) :
              (esp[i][j] = 0 /\ IsFinite(std[i][j]) /\ IsFinite(mu[i][j]))
                 => latent[i][j] = mu[i][j]

\* Two successive training-mode calls computed the same mu and std and
\* returned different latents.
C2_Witness == Forwarded /\ fwdTraining /\ diverged

\* C3: the recorded mu, std and latent are those of the most recent forward
\* call's input, and the KL divergence routine reports is computed from them.
C3_RecordedIsLatest ==
    /\ Forwarded =>
          /\ mu = ExpectedMu(lastX)
          /\ std = ExpectedStd(lastX)
          /\ latent = IF fwdTraining THEN Sampled(mu, std, esp) ELSE mu
    /\ RoutineReturned =>
          results["KL_divergence"] = KLTerm(ExpectedMu(lastX), ExpectedStd(lastX))

\* A routine call that followed an earlier forward pass (that of a visualize
\* call) on an input-dependent network.
C3_Witness ==
    /\ RoutineReturned /\ viz # {} /\ net.dim_z > 0
    /\ ExpectedMu(<<One>>) # ExpectedMu(<<0 - One>>)

\* A step of VAE.visualize.
VisualizeStep == lastOp' = "visualize" /\ training' = training

\* C4 as stated: visualize leaves the network weights and the recorded mu,
\* std and latent as they were.
C4_Original ==
    [][VisualizeStep => (net' = net /\ mu' = mu /\ std' = std /\ latent' = latent)]_vars

\* C4 amended: visualize leaves the network weights, the training flag, the
\* losses and the results as they were, and records the mu, std and latent of
\* the batch it visualizes.
C4_VisualizeKeepsWeights ==
    [][VisualizeStep =>
          /\ net' = net /\ training' = training
          /\ losses' = losses /\ results' = results
          /\ raised' = "none" =>
                /\ mu' = ExpectedMu(lastX')
                /\ std' = ExpectedStd(lastX')]_vars

\* A visualize call after a routine call, whose batch differs from routine's.
C4_Witness ==
    /\ lastOp = "visualize" /\ raised = "none"
    /\ "vae" \in DOMAIN losses
    /\ results["KL_divergence"] # KLTerm(mu, std)

\* The reconstruction term and the KL term of the batch of the last forward call.
ReconstructionTerm ==
    DivInt(SumSeq([i \in 1..Len(lastX) |->
               Mul(Sub(outputs[i], lastX[i]), Sub(outputs[i], lastX[i]))]),
           Len(lastX))
KlOfBatch ==
    LET m == ExpectedMu(lastX)
        s == ExpectedStd(lastX)
    IN DivInt(DivInt(SumSeq([i \in 1..Len(m) |->
                  SumSeq([j \in 1..Len(m[i]) |->
                      Sub(Sub(Add(Mul(s[i][j], s[i][j]), Mul(m[i][j], m[i][j])),
                              Mul(2 * One, Log(s[i][j]))),
                          One)])]), Len(m)), 2)

\* C5: routine sets losses.vae to reconstruction_term + beta_kld * kl_term,
\* the reconstruction term being the summed criterion divided by the batch
\* size and the KL term half the batch mean of the sums over the latent
\* dimensions of std^2 + mu^2 - 2 log(std) - 1 of that batch.
C5_LossIsElbo ==
    RoutineReturned =>
        /\ outputs = Decoder(latent)
        /\ losses["vae"] = Add(ReconstructionTerm, Mul(lastBeta, KlOfBatch))

\* A training-mode routine call on a batch of two with beta_kld = 1 and a
\* finite loss with a non-zero KL term.
C5_Witness ==
    /\ RoutineReturned /\ fwdTraining /\ Len(lastX) = 2 /\ lastBeta = One
    /\ IsFinite(losses["vae"]) /\ KlOfBatch # 0 /\ ReconstructionTerm # 0

\* A dimension that is missing or not positive.
InvalidDim(arg) == arg.kind # "int" \/ arg.v <= 0

\* C6: build raises a ConfigurationError when dim_z or dim_encoder_out is
\* missing or <= 0, and no forward pass runs on a network built from such a
\* dimension.
C6_BuildRejectsInvalidDims ==
    (lastOp # "none" /\ (InvalidDim(buildArgs.dim_z) \/ InvalidDim(buildArgs.dim_encoder_out)))
        => (raised = "ConfigurationError" /\ ~net.built /\ ~Forwarded)

\* C7 as stated: every routine call emits the reconstruction loss, the KL
\* divergence and the similarity score.
C7_Original ==
    RoutineReturned =>
        {"reconstruction_loss", "KL_divergence", "ms_ssim"} \subseteq DOMAIN results

\* C7 amended: every routine call emits exactly two metrics, the KL
\* divergence of the batch and the similarity score, and sets losses.vae; the
\* reconstruction loss is no metric of its own.
C7_EmitsKlAndSimilarity ==
    RoutineReturned =>
        /\ DOMAIN results = {"KL_divergence", "ms_ssim"}
        /\ results["KL_divergence"] = KlOfBatch
        /\ DOMAIN losses = {"vae"}

\* A routine call that returned with a finite KL divergence.
C7_Witness ==
    RoutineReturned /\ IsFinite(results["KL_divergence"]) /\ results["KL_divergence"] # 0

\* C8: when routine computes a non-finite loss or KL term it returns without
\* raising and reports the condition in a metric or flag of its own.
C8_NonFiniteIsSurfaced ==
    (lastOp = "routine" /\ Forwarded
       /\ (~IsFinite(losses["vae"]) \/ ~IsFinite(results["KL_divergence"])))
        => /\ raised = "none"
           /\ DOMAIN results \ {"KL_divergence", "ms_ssim"} # {}

\* mu == 0 and std == 1 in every latent dimension of every batch element.
PosteriorIsPrior ==
    \A i \in 1..Len(mu) : \A j \in 1..Len(mu[i]) : mu[i][j] = 0 /\ std[i][j] = One

\* C9 as stated: the KL term is 0 exactly when mu == 0 and std == 1 everywhere.
C9_Original ==
    RoutineReturned => (results["KL_divergence"] = 0 <=> PosteriorIsPrior)

\* C9 amended: the KL term is 0 whenever mu == 0 and std == 1 everywhere.
C9_PriorGivesZeroKl ==
    (RoutineReturned /\ PosteriorIsPrior) => results["KL_divergence"] = 0

\* A routine call on a network with dim_z > 0 whose posterior is the prior.
C9_Witness == RoutineReturned /\ PosteriorIsPrior /\ net.dim_z > 0

\* C10: build_model leaves classifier_args_ as loaded, and gives the network
\* the defaults overridden by the call's own classifier_args only.
C10_BuildModelIndependent ==
    /\ classifier_args_ = ClassifierDefaults
    /\ netArgs # <<>> => netArgs = Update(ClassifierDefaults, lastClassifierArgs)

====
